---- MODULE Spec2Model ----
(***************************************************************************)
(* ReconMetadata (src/niftypet/timing.py): per-frame block timing, the     *)
(* archive of finished frames, run timer, metadata and the saved report.   *)
(*                                                                         *)
(* Time is counted in clock ticks, TicksPerSecond ticks to the second;     *)
(* time.time() returns the environment clock `now`, which never goes back. *)
(* A Python dict is a function whose DOMAIN is the set of keys present.    *)
(* Floating-point values are exact rationals <<numerator, denominator>>.   *)
(***************************************************************************)
EXTENDS Integers, Sequences, FiniteSets, TLC

\* ---- bounds of the model ------------------------------------------------
MaxTime == 1
MaxFrames == 2
MaxDays == 1
TicksPerSecond == 2

\* ---- constants of the program and of the Python library it uses ---------
SecondsPerDay == 86400
SecondsPerMinute == 60

DayTicks == SecondsPerDay * TicksPerSecond
MinuteTicks == SecondsPerMinute * TicksPerSecond

\* Block names callers pass; "frame" is used by start_frame/end_frame.
BlockNames == {"frame", "unassigned", "A"}
CallerNames == BlockNames \ {"frame", "unassigned"}
\* the threads that call into one shared object
Callers == {"main", "worker"}
\* a thread that has no frame open
Idle == [at |-> "idle", block |-> "", started |-> {}, abandoned |-> FALSE]
Unset == <<>>   \* an attribute not set yet, or no value returned; a set attribute is <<value>>
NoError == "none"
EmptyDict == <<>>

VARIABLES
  now,              \* the wall clock read by time.time() and datetime.now()
  _current_times,   \* dict: block name -> dict with keys "start", "end"
  _previous_times,  \* list of archived frame dicts
  _identifier,      \* str
  _metadata,        \* dict: key -> str
  start_time,       \* attribute, Unset until start() sets it
  end_time,         \* attribute, Unset until end() sets it
  files,            \* the output directory: file name -> content
  call,             \* the last call's outcome: value returned or exception raised
  open_blocks,      \* history: names whose latest start_block has no later end_block
  followed,         \* history: calls since the map was last empty follow the Usage docstring
  pc                \* each calling thread's place in the Usage docstring's sequence

vars == <<now, _current_times, _previous_times, _identifier, _metadata,
          start_time, end_time, files, call, open_blocks, followed, pc>>

\* ---- dict helpers -------------------------------------------------------
\* d[k] = v on a dict
SetItem(d, k, v) == [x \in (DOMAIN d) \cup {k} |-> IF x = k THEN v ELSE d[x]]

\* dict.get(k, default)
Get(d, k, default) == IF k \in DOMAIN d THEN d[k] ELSE default

RECURSIVE SumOver(_, _)
\* sum([f[x] for x in S]) over integers
SumOver(S, f) ==
  IF S = {} THEN 0
  ELSE LET x == CHOOSE y \in S : TRUE IN f[x] + SumOver(S \ {x}, f)

\* what the last call left with its caller: the value it returned, or the
\* exception it raised together with the method and the argument that raised it
Outcome(op, arg, raised, value) ==
  IF raised = NoError
  THEN [op |-> "", arg |-> "", raised |-> NoError, value |-> value]
  ELSE [op |-> op, arg |-> arg, raised |-> raised, value |-> Unset]

\* ---- construction -------------------------------------------------------
\* str(value) for the values callers pass to add_metadatum
Str(value) ==
  IF value.type = "str" THEN value.s
  ELSE IF value.i = 1 THEN "1" ELSE IF value.i = 2 THEN "2" ELSE "0"

StrValue(s) == [type |-> "str", s |-> s]
IntValue(i) == [type |-> "int", i |-> i]

Identifiers == {"test"}
MetaKeys == {"identifier", "k"}
MetaValues == <<StrValue("v1"), StrValue("v2"), IntValue(1)>>

\* a metadatum written only when the key is new
AddMetadatumKeepFirst(metadata, key, value) ==
  IF key \in DOMAIN metadata THEN metadata
  ELSE [x \in (DOMAIN metadata) \cup {key} |->
          IF x = key THEN Str(value) ELSE metadata[x]]

\* self._metadata[key] = str(value)
AddMetadatum(metadata, key, value) == SetItem(metadata, key, Str(value))

Init ==
  /\ now = 0
  /\ _current_times = EmptyDict
  /\ _previous_times = <<>>
  /\ _identifier \in Identifiers
  /\ _metadata = AddMetadatum(EmptyDict, "identifier", StrValue(_identifier))
  /\ start_time = Unset
  /\ end_time = Unset
  /\ files = EmptyDict
  /\ call = Outcome("__init__", _identifier, NoError, Unset)
  /\ open_blocks = {}
  /\ followed = TRUE
  /\ pc = [c \in Callers |-> Idle]

\* ---- the clock ----------------------------------------------------------
Tick ==
  /\ now % DayTicks < MaxTime
  /\ now' = now + 1
  /\ UNCHANGED <<_current_times, _previous_times, _identifier, _metadata,
                 start_time, end_time, files, call, open_blocks, followed>>

\* ---- block timer --------------------------------------------------------
\* start_block building a fresh map that holds block_name alone
StartBlockAlone(times, block_name, t) ==
  SetItem(EmptyDict, block_name,
          SetItem(Get(times, block_name, EmptyDict), "start", t))

\* lines 44-45: the interval of block_name, created if absent, gets start = t
StartBlock(times, block_name, t) ==
  SetItem(times, block_name, SetItem(Get(times, block_name, EmptyDict), "start", t))

\* line 49: the guard of end_block
NotStarted(times, block_name) == block_name \notin DOMAIN times

\* line 51: the interval of block_name gets end = t
EndBlock(times, block_name, t) ==
  SetItem(times, block_name, SetItem(times[block_name], "end", t))

start_block(block_name) ==
  /\ _current_times' = StartBlock(_current_times, block_name, now)
  /\ call' = Outcome("start_block", block_name, NoError, Unset)
  /\ open_blocks' = open_blocks \cup {block_name}
  /\ followed' = (/\ followed
                  /\ "frame" \in open_blocks
                  /\ block_name \in CallerNames
                  /\ block_name \notin open_blocks)
  /\ UNCHANGED <<now, _previous_times, _identifier, _metadata, start_time,
                 end_time, files>>

\* end_block without the guard of line 49
end_block_unguarded(block_name) ==
  /\ _current_times' = SetItem(_current_times, block_name,
                               SetItem(Get(_current_times, block_name, EmptyDict),
                                       "end", now))
  /\ call' = Outcome("end_block", block_name, NoError, Unset)
  /\ open_blocks' = open_blocks \ {block_name}
  /\ followed' = FALSE
  /\ UNCHANGED <<now, _previous_times, _identifier, _metadata, start_time,
                 end_time, files>>

end_block(block_name) ==
  /\ IF NotStarted(_current_times, block_name)
     THEN /\ call' = Outcome("end_block", block_name, "RuntimeError", Unset)
          /\ UNCHANGED <<_current_times, open_blocks>>
     ELSE /\ _current_times' = EndBlock(_current_times, block_name, now)
          /\ call' = Outcome("end_block", block_name, NoError, Unset)
          /\ open_blocks' = open_blocks \ {block_name}
  /\ followed' = (/\ followed
                  /\ block_name \in CallerNames
                  /\ block_name \in open_blocks)
  /\ UNCHANGED <<now, _previous_times, _identifier, _metadata, start_time,
                 end_time, files>>

\* ---- frame lifecycle ----------------------------------------------------
start_frame ==
  /\ _current_times' = StartBlock(_current_times, "frame", now)
  /\ call' = Outcome("start_frame", "", NoError, Unset)
  /\ open_blocks' = open_blocks \cup {"frame"}
  /\ followed' = (_current_times = EmptyDict)
  /\ UNCHANGED <<now, _previous_times, _identifier, _metadata, start_time,
                 end_time, files>>

\* lines 108-110
FrameTime(times) == times["frame"]["end"] - times["frame"]["start"]

\* lines 111-117; evaluated only when every summed interval has both fields
AssignedTime(times) ==
  SumOver(DOMAIN times \ {"frame"},
          [key \in DOMAIN times \ {"frame"} |-> times[key]["end"] - times[key]["start"]])

\* lines 111-117: value["end"] or value["start"] of a summed interval is missing
AssignedRaises(times) ==
  \E key \in DOMAIN times \ {"frame"} : {"start", "end"} \ DOMAIN times[key] # {}

\* lines 118-119
SetUnassigned(times) ==
  SetItem(times, "unassigned",
          SetItem(SetItem(times["unassigned"], "start", 0),
                  "end", FrameTime(times) - AssignedTime(times)))

\* the archive rebuilt from the last frame instead of appended to
ArchiveLastOnly(previous, times) == <<times>>

\* line 121: deepcopy gives a value that later writes to the map cannot reach
Archive(previous, times) == Append(previous, times)

\* end_frame with the record archived before the sums are taken: a frame
\* that fails at lines 113 or 118 is in the archive already
end_frame_archive_first ==
  /\ Len(_previous_times) < MaxFrames
  /\ IF NotStarted(_current_times, "frame")
     THEN /\ call' = Outcome("end_frame", "", "RuntimeError", Unset)
          /\ UNCHANGED <<_current_times, _previous_times, open_blocks>>
          /\ followed' = FALSE
     ELSE LET ended == EndBlock(_current_times, "frame", now) IN
          IF AssignedRaises(ended) \/ "unassigned" \notin DOMAIN ended
          THEN /\ _current_times' = ended
               /\ call' = Outcome("end_frame", "", "KeyError", Unset)
               /\ open_blocks' = open_blocks \ {"frame"}
               /\ followed' = FALSE
               /\ _previous_times' = Archive(_previous_times, ended)
          ELSE /\ _previous_times' = Archive(_previous_times, SetUnassigned(ended))
               /\ _current_times' = EmptyDict
               /\ call' = Outcome("end_frame", "", NoError, Unset)
               /\ open_blocks' = {}
               /\ followed' = TRUE
  /\ UNCHANGED <<now, _identifier, _metadata, start_time, end_time, files>>

end_frame ==
  /\ Len(_previous_times) < MaxFrames
  /\ IF NotStarted(_current_times, "frame")
     THEN \* line 107: end_block("frame") raises
          /\ call' = Outcome("end_frame", "", "RuntimeError", Unset)
          /\ UNCHANGED <<_current_times, _previous_times, open_blocks>>
          /\ followed' = FALSE
     ELSE LET ended == EndBlock(_current_times, "frame", now) IN
          IF AssignedRaises(ended) \/ "unassigned" \notin DOMAIN ended
          THEN \* lines 113, 118: KeyError after the frame's end was written
               /\ _current_times' = ended
               /\ call' = Outcome("end_frame", "", "KeyError", Unset)
               /\ open_blocks' = open_blocks \ {"frame"}
               /\ followed' = FALSE
               /\ UNCHANGED _previous_times
          ELSE /\ _previous_times' = Archive(_previous_times, SetUnassigned(ended))
               /\ _current_times' = EmptyDict
               /\ call' = Outcome("end_frame", "", NoError, Unset)
               /\ open_blocks' = {}
               /\ followed' = TRUE
  /\ UNCHANGED <<now, _identifier, _metadata, start_time, end_time, files>>

\* pc is advanced only by the thread-level actions (StartFrameBy, ...); a call
\* made outside them leaves it as it is
Next ==
  \/ Tick /\ UNCHANGED pc
  \/ \E block_name \in BlockNames : start_block(block_name) /\ UNCHANGED pc
  \/ \E block_name \in BlockNames : end_block(block_name) /\ UNCHANGED pc
  \/ start_frame /\ UNCHANGED pc
  \/ end_frame /\ UNCHANGED pc

Spec == Init /\ [][Next]_vars

\* ---- run timer ----------------------------------------------------------
\* a pause of a whole day between two frames
LongTick ==
  /\ now \div DayTicks < MaxDays
  /\ _current_times = EmptyDict
  /\ now' = now + DayTicks
  /\ UNCHANGED <<_current_times, _previous_times, _identifier, _metadata,
                 start_time, end_time, files, call, open_blocks, followed>>

start ==
  /\ start_time' = <<now>>
  /\ call' = Outcome("start", "", NoError, Unset)
  /\ UNCHANGED <<now, _current_times, _previous_times, _identifier, _metadata,
                 end_time, files, open_blocks, followed>>

end ==
  /\ end_time' = <<now>>
  /\ call' = Outcome("end", "", NoError, Unset)
  /\ UNCHANGED <<now, _current_times, _previous_times, _identifier, _metadata,
                 start_time, files, open_blocks, followed>>

\* datetime.timedelta(seconds=x): normalised to days, 0 <= seconds < 86400 and
\* the rest of a second; x is a number of ticks
timedelta(ticks) ==
  [days |-> ticks \div DayTicks,
   seconds |-> (ticks \div TicksPerSecond) % SecondsPerDay,
   subsecond |-> ticks % TicksPerSecond]

\* line 55: self.end_time or self.start_time is no attribute yet
DurationRaises(s, e) == s = Unset \/ e = Unset

\* line 55
TotalDuration(s, e) == timedelta(e[1] - s[1])

total_duration ==
  /\ call' = IF DurationRaises(start_time, end_time)
             THEN Outcome("total_duration", "", "AttributeError", Unset)
             ELSE Outcome("total_duration", "", NoError,
                          TotalDuration(start_time, end_time))
  /\ UNCHANGED <<now, _current_times, _previous_times, _identifier, _metadata,
                 start_time, end_time, files, open_blocks, followed>>

\* ---- metadata -----------------------------------------------------------
add_metadatum(key, value) ==
  /\ _metadata' = AddMetadatum(_metadata, key, value)
  /\ call' = Outcome("add_metadatum", key, NoError, value)
  /\ UNCHANGED <<now, _current_times, _previous_times, _identifier, start_time,
                 end_time, files, open_blocks, followed>>

\* ---- float arithmetic as exact rationals --------------------------------
Abs(i) == IF i < 0 THEN -i ELSE i

RECURSIVE GCD(_, _)
GCD(a, b) == IF b = 0 THEN a ELSE GCD(b, a % b)

\* the rational n/d (d # 0) in lowest terms with a positive denominator
Rat(n, d) ==
  LET g == GCD(Abs(n), Abs(d))
      sign == IF d < 0 THEN -1 ELSE 1
  IN <<sign * (n \div g), sign * (d \div g)>>

RatAdd(a, b) == Rat(a[1] * b[2] + b[1] * a[2], a[2] * b[2])
RatSub(a, b) == Rat(a[1] * b[2] - b[1] * a[2], a[2] * b[2])
RatMul(a, b) == Rat(a[1] * b[1], a[2] * b[2])
RatDivInt(a, n) == Rat(a[1], a[2] * n)
RatOfInt(i) == <<i, 1>>

RECURSIVE RatSum(_)
\* sum([...]) of a list of rationals
RatSum(list) ==
  IF list = <<>> THEN RatOfInt(0) ELSE RatAdd(Head(list), RatSum(Tail(list)))

\* math.sqrt, kept symbolic: the root of a rational
sqrt(x) == [sqrt |-> x]

\* ---- aggregation --------------------------------------------------------
\* lines 58-64: timings[block_key]["end"] or ["start"] is missing
CalcDurationsRaises(previous) ==
  \E i \in 1..Len(previous) : \E block_key \in DOMAIN previous[i] :
      {"start", "end"} \ DOMAIN previous[i][block_key] # {}

\* lines 58-64
_calc_durations(previous) ==
  [i \in 1..Len(previous) |->
     [block_key \in DOMAIN previous[i] |->
        previous[i][block_key]["end"] - previous[i][block_key]["start"]]]

\* lines 68-71 and 77-83: durations[0] of an empty list, or el[key] of a frame
\* that lacks a key of the first frame
CalcRaises(durations) ==
  IF durations = <<>> THEN "IndexError"
  ELSE IF \E i \in 1..Len(durations) : DOMAIN durations[1] \ DOMAIN durations[i] # {}
       THEN "KeyError"
       ELSE NoError

\* lines 68-71
_calc_averages(durations) ==
  [key \in DOMAIN durations[1] |->
     RatDivInt(RatSum([i \in 1..Len(durations) |-> RatOfInt(durations[i][key])]),
               Len(durations))]

\* the root of the summed squared deviations, not divided by the frame count
_calc_deviations_undivided(durations, averages) ==
  [key \in DOMAIN durations[1] |->
     sqrt(RatSum([i \in 1..Len(durations) |->
                    LET diff == RatSub(RatOfInt(durations[i][key]), averages[key])
                    IN RatMul(diff, diff)]))]

\* lines 77-83
_calc_deviations(durations, averages) ==
  [key \in DOMAIN durations[1] |->
     sqrt(RatDivInt(
            RatSum([i \in 1..Len(durations) |->
                      LET diff == RatSub(RatOfInt(durations[i][key]), averages[key])
                      IN RatMul(diff, diff)]),
            Len(durations)))]

\* ---- persistence --------------------------------------------------------
\* line 90: the file name holds the minute of the save and the identifier
FileName(t, identifier) == [minute |-> t \div MinuteTicks, identifier |-> identifier]

\* open(..., "w"): the file exists and is empty
EmptyFile == [written |-> FALSE]

\* lines 93-101: the document json.dump writes
Report(metadata, averages, std_deviations, duration) ==
  [written |-> TRUE,
   metadata |-> metadata,
   averages |-> averages,
   std_deviations |-> std_deviations,
   total_seconds |-> duration.seconds]

\* save with the file opened before the statistics are computed
save_open_first ==
  LET filename == FileName(now, _identifier)
      durations == _calc_durations(_previous_times)
      averages == _calc_averages(durations)
      std_deviations == _calc_deviations(durations, averages)
  IN
  /\ IF CalcDurationsRaises(_previous_times)
     THEN /\ call' = Outcome("save", "", "KeyError", Unset)
          /\ files' = SetItem(files, filename, EmptyFile)
     ELSE IF CalcRaises(durations) # NoError
     THEN /\ call' = Outcome("save", "", CalcRaises(durations), Unset)
          /\ files' = SetItem(files, filename, EmptyFile)
     ELSE IF DurationRaises(start_time, end_time)
     THEN /\ call' = Outcome("save", "", "AttributeError", Unset)
          /\ files' = SetItem(files, filename, EmptyFile)
     ELSE /\ call' = Outcome("save", "", NoError, Unset)
          /\ files' = SetItem(files, filename,
                              Report(_metadata, averages, std_deviations,
                                     TotalDuration(start_time, end_time)))
  /\ UNCHANGED <<now, _current_times, _previous_times, _identifier, _metadata,
                 start_time, end_time, open_blocks, followed>>

save ==
  LET filename == FileName(now, _identifier)
      durations == _calc_durations(_previous_times)
      averages == _calc_averages(durations)
      std_deviations == _calc_deviations(durations, averages)
  IN
  /\ IF CalcDurationsRaises(_previous_times)
     THEN /\ call' = Outcome("save", "", "KeyError", Unset)
          /\ UNCHANGED files
     ELSE IF CalcRaises(durations) # NoError
     THEN \* lines 87-88 raise before the file is opened
          /\ call' = Outcome("save", "", CalcRaises(durations), Unset)
          /\ UNCHANGED files
     ELSE IF DurationRaises(start_time, end_time)
     THEN \* line 98 raises inside the with block: the file was opened for writing
          /\ call' = Outcome("save", "", "AttributeError", Unset)
          /\ files' = SetItem(files, filename, EmptyFile)
     ELSE /\ call' = Outcome("save", "", NoError, Unset)
          /\ files' = SetItem(files, filename,
                              Report(_metadata, averages, std_deviations,
                                     TotalDuration(start_time, end_time)))
  /\ UNCHANGED <<now, _current_times, _previous_times, _identifier, _metadata,
                 start_time, end_time, open_blocks, followed>>

\* ---- the archives end_frame can have built ------------------------------
\* an interval whose start and end were both written between lo and hi; a
\* restarted block keeps its old end, so start > end occurs
Intervals(lo, hi) ==
  {SetItem(SetItem(EmptyDict, "start", s), "end", e) : s \in lo..hi, e \in lo..hi}

\* the current map when end_frame at time hi reaches line 118, for a frame
\* whose calls were all made between lo and hi
FrameMaps(lo, hi) ==
  LET frames == {SetItem(SetItem(EmptyDict, "start", s), "end", hi) : s \in lo..hi}
      base == {SetItem(SetItem(EmptyDict, "frame", f), "unassigned", u) :
                 f \in frames, u \in Intervals(lo, hi)}
  IN base \cup {SetItem(b, "A", a) : b \in base, a \in Intervals(lo, hi)}

RECURSIVE ArchivesFrom(_, _)
\* the lists of at most n records archived by successive end_frame calls, the
\* first frame starting no earlier than lo
ArchivesFrom(lo, n) ==
  IF n = 0 THEN {<<>>}
  ELSE {<<>>} \cup
       UNION {UNION {{<<SetUnassigned(m)>> \o rest : rest \in ArchivesFrom(hi, n - 1)} :
                       m \in FrameMaps(lo, hi)} :
                hi \in lo..MaxTime}

\* every archive a run reaches under Spec is one of ArchivesFrom(0, MaxFrames)
ArchiveIsGenerated == _previous_times \in ArchivesFrom(0, MaxFrames)

\* the clock when the last frame of the archive ended
LastEnd(previous) ==
  IF previous = <<>> THEN 0 ELSE previous[Len(previous)]["frame"]["end"]

\* the state after construction and a run of frames that left the map empty
InitSave ==
  /\ _previous_times \in ArchivesFrom(0, MaxFrames)
  /\ now = LastEnd(_previous_times)
  /\ _current_times = EmptyDict
  /\ _identifier \in Identifiers
  /\ _metadata = AddMetadatum(EmptyDict, "identifier", StrValue(_identifier))
  /\ start_time = Unset
  /\ end_time = Unset
  /\ files = EmptyDict
  /\ call = Outcome("__init__", _identifier, NoError, Unset)
  /\ open_blocks = {}
  /\ followed = TRUE
  /\ pc = [c \in Callers |-> Idle]

\* the aggregator applied to every archive: the clock stands still
NextSave ==
  \/ start /\ UNCHANGED pc
  \/ end /\ UNCHANGED pc
  \/ save /\ UNCHANGED pc

SpecSave == InitSave /\ [][NextSave]_vars

\* ---- a whole run: construction, frames, run timer, report ---------------
\* the caller times no block of its own except one named "unassigned"
NextRun ==
  \/ Tick /\ UNCHANGED pc
  \/ LongTick /\ UNCHANGED pc
  \/ start /\ UNCHANGED pc
  \/ end /\ UNCHANGED pc
  \/ total_duration /\ UNCHANGED pc
  \/ start_frame /\ UNCHANGED pc
  \/ start_block("unassigned") /\ UNCHANGED pc
  \/ end_block("unassigned") /\ UNCHANGED pc
  \/ end_frame /\ UNCHANGED pc
  \/ save /\ UNCHANGED pc

SpecRun == Init /\ [][NextRun]_vars

\* ======================= the claims ======================================
Duration(interval) == interval["end"] - interval["start"]

IsPrefix(a, b) ==
  /\ Len(a) <= Len(b)
  /\ \A i \in 1..Len(a) : a[i] = b[i]

\* C1: after start_frame() and matched start_block/end_block pairs with names
\* other than "frame" and "unassigned", end_frame() does not raise, archives
\* exactly one record and leaves the current map empty.
C1_ProtocolFrameArchived ==
  [][(end_frame /\ followed /\ open_blocks = {"frame"})
       => /\ call'.raised = NoError
          /\ Len(_previous_times') = Len(_previous_times) + 1
          /\ _current_times' = EmptyDict]_vars

\* C2: every archived record has a "frame" and an "unassigned" interval, and
\* the unassigned duration is the frame duration minus the sum of the
\* durations of all other named intervals of the record.
C2_UnassignedIsRemainder ==
  \A i \in 1..Len(_previous_times) :
    LET record == _previous_times[i]
        others == DOMAIN record \ {"frame", "unassigned"}
    IN /\ {"frame", "unassigned"} \subseteq DOMAIN record
       /\ Duration(record["unassigned"]) =
            Duration(record["frame"])
              - SumOver(others, [key \in others |-> Duration(record[key])])

\* C3: end_block(x) for an x with no entry in the current map raises the
\* "not started" error naming x, creates no entry for x and leaves the map,
\* the archive, the metadata, the run timestamps and the files as they were.
C3_UnstartedEndBlockRaises ==
  [][\A x \in BlockNames \ DOMAIN _current_times :
       end_block(x)
         => /\ call'.raised = "RuntimeError"
            /\ call'.arg = x
            /\ x \notin DOMAIN _current_times'
            /\ UNCHANGED <<_current_times, _previous_times, _metadata,
                           start_time, end_time, files>>]_vars

C3_Witness ==
  /\ call.op = "end_block"
  /\ call.raised = "RuntimeError"
  /\ call.arg = "A"
  /\ "frame" \in DOMAIN _current_times
  /\ "A" \notin DOMAIN _current_times

\* C4: end_frame() fails and archives nothing while a block other than
\* "frame" is open, i.e. its latest start_block has no later end_block.
C4_OpenBlockFailsFrame ==
  [][(end_frame /\ open_blocks \ {"frame"} # {})
       => /\ call'.raised # NoError
          /\ _previous_times' = _previous_times]_vars

\* C5: the archive only grows at its end: across every step the archive
\* before is a prefix of the archive after, record for record.
C5_ArchiveAppendOnly ==
  [][IsPrefix(_previous_times, _previous_times')]_vars

C5_Witness ==
  /\ Len(_previous_times) = 2
  /\ _previous_times[1] # _previous_times[2]
  /\ "A" \in DOMAIN _current_times
  /\ "end" \in DOMAIN _current_times["A"]

RECURSIVE SumSeq(_)
SumSeq(list) == IF list = <<>> THEN 0 ELSE Head(list) + SumSeq(Tail(list))

\* the block names of all archived records
ArchivedNames(previous) == UNION {DOMAIN previous[i] : i \in 1..Len(previous)}

\* the durations of name in the archived records that contain it, in order
DurationsOf(previous, name) ==
  LET containing == SelectSeq(previous, LAMBDA record : name \in DOMAIN record)
  IN [i \in 1..Len(containing) |-> Duration(containing[i][name])]

\* every archived record has the same names
UniformNames(previous) ==
  \A i \in 1..Len(previous) : DOMAIN previous[i] = DOMAIN previous[1]

\* (d1 + ... + dN) / N
Mean(list) == Rat(SumSeq(list), Len(list))

\* the mean squared deviation from the mean, dividing by N:
\* (N * (d1^2 + ... + dN^2) - (d1 + ... + dN)^2) / N^2
PopulationVariance(list) ==
  Rat(Len(list) * SumSeq([i \in 1..Len(list) |-> list[i] * list[i]])
        - SumSeq(list) * SumSeq(list),
      Len(list) * Len(list))

\* the file a save at this moment writes
SavedReport == files'[FileName(now, _identifier)]

\* C6: save() with an empty archive raises and neither creates nor truncates
\* a file, whatever the run timer holds.
C6_EmptyArchiveSaveFails ==
  [][(save /\ _previous_times = <<>>)
       => /\ call'.raised # NoError
          /\ files' = files]_vars

C6_Witness ==
  /\ call.op = "save"
  /\ call.raised = "IndexError"
  /\ _previous_times = <<>>
  /\ start_time # Unset
  /\ end_time # Unset

\* C7: total_duration and save() raise when start() or end() was not called,
\* and such a failed save leaves the output directory as it was: no empty or
\* partial report file.
C7_IncompleteTimerFailsCleanly ==
  [][/\ (total_duration /\ DurationRaises(start_time, end_time))
          => call'.raised # NoError
     /\ (save /\ DurationRaises(start_time, end_time))
          => /\ call'.raised # NoError
             /\ files' = files]_vars

\* C8: the saved averages and std_deviations have as keys the union of the
\* block names of all archived records, each average being the mean of the
\* name's duration over the records that contain it; records lacking a name
\* do not make save fail.
C8_StatisticsOverAllNames ==
  [][(save /\ _previous_times # <<>> /\ ~DurationRaises(start_time, end_time))
       => /\ call'.raised = NoError
          /\ DOMAIN SavedReport.averages = ArchivedNames(_previous_times)
          /\ DOMAIN SavedReport.std_deviations = ArchivedNames(_previous_times)
          /\ \A name \in ArchivedNames(_previous_times) :
               SavedReport.averages[name] = Mean(DurationsOf(_previous_times, name))]_vars

\* C9: when all archived records have the same names, the saved average of a
\* name is (d1+...+dN)/N and its saved std_deviations value is the population
\* standard deviation of d1..dN (dividing by N).
C9_MeanAndPopulationDeviation ==
  [][(save /\ call'.raised = NoError /\ UniformNames(_previous_times))
       => \A name \in DOMAIN _previous_times[1] :
            LET d == DurationsOf(_previous_times, name)
            IN /\ Len(d) = Len(_previous_times)
               /\ SavedReport.averages[name] = Mean(d)
               /\ SavedReport.std_deviations[name] = sqrt(PopulationVariance(d))]_vars

C9_Witness ==
  /\ call.raised = NoError
  /\ Len(_previous_times) = 2
  /\ UniformNames(_previous_times)
  /\ "A" \in DOMAIN _previous_times[1]
  /\ Duration(_previous_times[1]["A"]) # Duration(_previous_times[2]["A"])
  /\ \E f \in DOMAIN files :
       /\ files[f].written
       /\ files[f].averages["A"][2] = 2
       /\ files[f].std_deviations["A"] # sqrt(RatOfInt(0))

\* C10: after start() and then end(), the saved total_seconds is the whole
\* number of seconds of end_time - start_time, truncated, also for runs of a
\* day or longer.
C10_TotalSecondsWhole ==
  [][(/\ save
      /\ call'.raised = NoError
      /\ start_time[1] <= end_time[1])
       => SavedReport.total_seconds = (end_time[1] - start_time[1]) \div TicksPerSecond]_vars

\* ---- metadata through to the report: the clock stands still -------------
\* the caller times no block of its own except one named "unassigned"
NextMeta ==
  \/ \E key \in MetaKeys, i \in DOMAIN MetaValues : add_metadatum(key, MetaValues[i]) /\ UNCHANGED pc
  \/ start /\ UNCHANGED pc
  \/ end /\ UNCHANGED pc
  \/ start_frame /\ UNCHANGED pc
  \/ start_block("unassigned") /\ UNCHANGED pc
  \/ end_block("unassigned") /\ UNCHANGED pc
  \/ end_frame /\ UNCHANGED pc
  \/ save /\ UNCHANGED pc

SpecMeta == Init /\ [][NextMeta]_vars

\* C11: add_metadatum(key, value) stores str(value) under key, replacing an
\* earlier value, returns value itself and leaves all other keys as they
\* were; the report a successful save writes holds the metadata as last
\* written; "identifier" is a key from construction on, first holding the
\* identifier given to the constructor.
C11_MetadataLastWriteWins ==
  /\ _metadata["identifier"] = _identifier
  /\ [][/\ "identifier" \in DOMAIN _metadata'
        /\ \A key \in MetaKeys, i \in DOMAIN MetaValues :
             add_metadatum(key, MetaValues[i])
               => /\ DOMAIN _metadata' = DOMAIN _metadata \cup {key}
                  /\ MetaValues[i].type = "str" => _metadata'[key] = MetaValues[i].s
                  /\ MetaValues[i] = IntValue(1) => _metadata'[key] = "1"
                  /\ call'.value = MetaValues[i]
                  /\ \A other \in DOMAIN _metadata \ {key} :
                       _metadata'[other] = _metadata[other]
        /\ (save /\ call'.raised = NoError)
             => SavedReport.metadata = _metadata]_vars

\* "k" holds "v2" and a saved report holds it next to the identifier
C11_Witness ==
  /\ _metadata["identifier"] = _identifier
  /\ "k" \in DOMAIN _metadata
  /\ _metadata["k"] = "v2"
  /\ \E f \in DOMAIN files :
       /\ files[f].written
       /\ files[f].metadata["k"] = "v2"
       /\ files[f].metadata["identifier"] = _identifier

\* the names the frame lifecycle itself uses
ReservedNames == {"frame", "unassigned"}

\* C12: start_block(name) and end_block(name) with name "frame" or
\* "unassigned" are rejected with an error and leave the current map as it was.
C12_ReservedNamesRejected ==
  [][\A name \in ReservedNames :
       (start_block(name) \/ end_block(name))
         => /\ call'.raised # NoError
            /\ _current_times' = _current_times]_vars

\* C13: every interval of the current map that has an end got it from an
\* end_block made after the latest start_block for its name, and the end is
\* not older than the start.
C13_EndAfterLatestStart ==
  \A name \in DOMAIN _current_times :
    "end" \in DOMAIN _current_times[name]
      => /\ name \notin open_blocks
         /\ _current_times[name]["end"] >= _current_times[name]["start"]

\* C14: end_block(name) raises the "not started" error whenever name has no
\* open interval, also when an earlier end_block closed it and no start_block
\* re-opened it.
C14_ClosedEndBlockRaises ==
  [][\A name \in BlockNames :
       (end_block(name) /\ name \notin open_blocks)
         => /\ call'.raised = "RuntimeError"
            /\ _current_times' = _current_times]_vars

\* C17 as stated: whenever end_frame raises, the archive and the current map
\* are exactly as they were before the call.
C17_FailedEndFrameAtomic ==
  [][(end_frame /\ call'.raised # NoError)
       => /\ _previous_times' = _previous_times
          /\ _current_times' = _current_times]_vars

\* C17 amended: whenever end_frame raises, the archive is as it was before
\* the call and so is every interval of the current map, except that the
\* "frame" interval, when there is one, has its end set to the time of the
\* call; no name is added to or removed from the map.
C17_FailedEndFrameKeepsIntervals ==
  [][(end_frame /\ call'.raised # NoError)
       => /\ _previous_times' = _previous_times
          /\ DOMAIN _current_times' = DOMAIN _current_times
          /\ \A name \in DOMAIN _current_times \ {"frame"} :
               _current_times'[name] = _current_times[name]
          /\ "frame" \in DOMAIN _current_times
               => /\ _current_times'["frame"]["start"] = _current_times["frame"]["start"]
                  /\ _current_times'["frame"]["end"] = now
                  /\ DOMAIN _current_times'["frame"] = {"start", "end"}]_vars

\* end_frame has just failed on the open block "A" of a frame that has an
\* "unassigned" interval, with an archived frame before it
C17_Witness ==
  /\ call.op = "end_frame"
  /\ call.raised = "KeyError"
  /\ Len(_previous_times) = 1
  /\ {"frame", "unassigned", "A"} \subseteq DOMAIN _current_times
  /\ "end" \notin DOMAIN _current_times["A"]
  /\ DOMAIN _current_times["unassigned"] = {"start", "end"}
  /\ _current_times["frame"]["start"] < _current_times["frame"]["end"]

\* ---- every operation on one object: the clock stands still ---------------
\* the caller times blocks named "A" and "unassigned"
TimedNames == {"unassigned", "A"}

NextEffects ==
  \/ add_metadatum("k", MetaValues[1]) /\ UNCHANGED pc
  \/ start /\ UNCHANGED pc
  \/ end /\ UNCHANGED pc
  \/ total_duration /\ UNCHANGED pc
  \/ save /\ UNCHANGED pc
  \/ start_frame /\ UNCHANGED pc
  \/ \E block_name \in TimedNames : start_block(block_name) /\ UNCHANGED pc
  \/ \E block_name \in TimedNames : end_block(block_name) /\ UNCHANGED pc
  \/ end_frame /\ UNCHANGED pc

SpecEffects == Init /\ [][NextEffects]_vars

\* C18: start, end, add_metadatum, total_duration and save, failing or not,
\* leave the current map and the archive as they were; start_block(n) and
\* end_block(n) leave every interval other than n's, the archive, the
\* metadata and the run timestamps as they were; so a save right after a
\* successful save computes, from the archive that save left, the averages
\* and std_deviations that save wrote.
C18_FrameEffects ==
  [][/\ (start \/ end \/ total_duration \/ save \/ add_metadatum("k", MetaValues[1]))
          => UNCHANGED <<_current_times, _previous_times>>
     /\ \A n \in TimedNames :
          (start_block(n) \/ end_block(n))
            => /\ DOMAIN _current_times \ {n} = DOMAIN _current_times' \ {n}
               /\ \A other \in DOMAIN _current_times \ {n} :
                    _current_times'[other] = _current_times[other]
               /\ UNCHANGED <<_previous_times, _metadata, start_time, end_time>>
     /\ (save /\ call'.raised = NoError)
          => /\ _previous_times' = _previous_times
             /\ CalcRaises(_calc_durations(_previous_times')) = NoError
             /\ SavedReport.averages = _calc_averages(_calc_durations(_previous_times'))
             /\ SavedReport.std_deviations =
                  _calc_deviations(_calc_durations(_previous_times'),
                                   _calc_averages(_calc_durations(_previous_times')))]_vars

\* total_duration has just returned on an object with an archived frame, a
\* written report, a metadatum "k", and "A" open next to a finished
\* "unassigned" in an open frame
C18_Witness ==
  /\ Len(_previous_times) = 1
  /\ _current_times # EmptyDict
  /\ DOMAIN _current_times = {"frame", "unassigned", "A"}
  /\ "end" \notin DOMAIN _current_times["A"]
  /\ "end" \in DOMAIN _current_times["unassigned"]
  /\ "k" \in DOMAIN _metadata
  /\ start_time # Unset
  /\ end_time # Unset
  /\ call.raised = NoError
  /\ call.value = TotalDuration(start_time, end_time)
  /\ \E f \in DOMAIN files : files[f].written /\ "unassigned" \in DOMAIN files[f].averages

\* ---- calling threads ----------------------------------------------------
\* A thread follows the Usage docstring: start_frame, then start_block and
\* end_block in pairs, then end_frame. pc[c].started collects the names the
\* thread has started since its latest start_frame. A call runs to its end
\* before the next call begins; a thread whose call raised makes no more calls.
WorkNames == {"A", "B"}

Failed == [at |-> "failed", block |-> "", started |-> {}, abandoned |-> FALSE]

StartFrameBy(c) ==
  /\ pc[c].at = "idle"
  /\ start_frame
  /\ pc' = [pc EXCEPT ![c] = [at |-> "frame", block |-> "", started |-> {},
                              abandoned |-> FALSE]]

\* the thread gives up a frame with a block still open and starts the next
RestartFrameBy(c) ==
  /\ pc[c].at = "block"
  /\ start_frame
  /\ pc' = [pc EXCEPT ![c] = [at |-> "frame", block |-> "", started |-> {},
                              abandoned |-> TRUE]]

StartBlockBy(c, block_name) ==
  /\ pc[c].at = "frame"
  /\ start_block(block_name)
  /\ pc' = [pc EXCEPT ![c] = [at |-> "block", block |-> block_name,
                              started |-> pc[c].started \cup {block_name},
                              abandoned |-> pc[c].abandoned]]

EndBlockBy(c) ==
  /\ pc[c].at = "block"
  /\ end_block(pc[c].block)
  /\ pc' = [pc EXCEPT ![c] = IF call'.raised = NoError
                             THEN [at |-> "frame", block |-> "",
                                   started |-> pc[c].started,
                                   abandoned |-> pc[c].abandoned]
                             ELSE Failed]

EndFrameBy(c) ==
  /\ pc[c].at = "frame"
  /\ end_frame
  /\ pc' = [pc EXCEPT ![c] = IF call'.raised = NoError THEN Idle ELSE Failed]

\* one thread that may give up a frame
NextAbandon ==
  \/ Tick /\ UNCHANGED pc
  \/ StartFrameBy("main")
  \/ RestartFrameBy("main")
  \/ \E block_name \in WorkNames : StartBlockBy("main", block_name)
  \/ EndBlockBy("main")
  \/ EndFrameBy("main")

SpecAbandon == Init /\ [][NextAbandon]_vars

\* C15: after a frame given up with a block open, a sequence start_frame,
\* matched start_block/end_block pairs, end_frame succeeds and archives a
\* record with exactly "frame", "unassigned" and the blocks started within
\* the sequence.
C15_AbandonedFrameDiscarded ==
  [][(EndFrameBy("main") /\ pc["main"].abandoned)
       => /\ call'.raised = NoError
          /\ Len(_previous_times') = Len(_previous_times) + 1
          /\ DOMAIN _previous_times'[Len(_previous_times')]
               = {"frame", "unassigned"} \cup pc["main"].started]_vars

\* two threads on one object, no lock: their calls interleave freely
NextShared ==
  \/ Tick /\ UNCHANGED pc
  \/ \E c \in Callers : StartFrameBy(c)
  \/ \E c \in Callers, block_name \in WorkNames : StartBlockBy(c, block_name)
  \/ \E c \in Callers : EndBlockBy(c)
  \/ \E c \in Callers : EndFrameBy(c)

SpecShared == Init /\ [][NextShared]_vars

\* C16: when one thread's end_frame runs while the other thread has its frame
\* open (no block open, every interval of the map complete), the call
\* archives and resets the shared map, so that the other thread's end_frame
\* then meets a map without "frame" and fails with "not started".
C16_EndFrameResetsUnderOther ==
  [][\A c \in Callers : \A d \in Callers \ {c} :
       (/\ EndFrameBy(c)
        /\ pc[d].at = "frame"
        /\ ~AssignedRaises(_current_times))
         => /\ Len(_previous_times') = Len(_previous_times) + 1
            /\ _current_times' = EmptyDict
            /\ NotStarted(_current_times', "frame")]_vars

\* under SpecShared no frame is archived and no call meets a missing name:
\* every end_frame stops at line 118 (or 113) before lines 121 and 127
NoResetUnderProtocol ==
  /\ _previous_times = <<>>
  /\ call.raised # "RuntimeError"
  /\ \A c \in Callers : pc[c].at # "idle" => "frame" \in DOMAIN _current_times

====
